---- MODULE Spec2Model ----
(***************************************************************************)
(* A model of the aa_uv conversion pipeline:                               *)
(*   - the UV5 container codec (aavs_uv/io/aavs_uv5.py),                   *)
(*   - the raw-container metadata loader and the canonical model builder   *)
(*     (ska_ost_low_uv/io/to_uvx.py, aa_uv/utils.py),                      *)
(*   - the SDP Visibility exporters (aa_uv/io/to_sdp.py) and the direct    *)
(*     adapter (aavs_uv/sdp_uv.py),                                        *)
(*   - the batch driver (aavs_uv/parallelize.py).                          *)
(*                                                                         *)
(* Conventions.                                                            *)
(*   A Python dict is a function whose domain is a set of strings.         *)
(*   A text is a sequence of code points (TLC cannot take a string apart). *)
(*   A complex number is a pair <<re, im>> of integers.                    *)
(*   Times are kept doubled (in half ticks), so that tsamp / 2, a true     *)
(*   division in the source, is exact.                                     *)
(*   An angle is [num, unit]: its value is num / DegPerHour in that unit,  *)
(*   so that degrees -> hour angle (a division by 15) is exact.            *)
(***************************************************************************)
EXTENDS Integers, Sequences, FiniteSets, TLC

VARIABLES
    uv,         \* codec: the UV object handed to uv_to_uv5
    h5,         \* codec: the container file on disk
    uv_read,    \* codec: what uv5_to_uv returned
    codec_pc,   \* codec: "idle" | "init" | "written" | "read"
    raw,        \* loader: the raw correlator container (HDF5) on disk
    env,        \* loader: the station configurations on disk and the call's
                \*         yaml_config / telescope_name arguments
    caller,     \* loader: the provenance dict owned by the caller
    ret,        \* loader: the last call: its name, outcome, I/O log and result
    held,       \* loader: the model of an earlier file the caller still holds
    uvd,        \* export: the UVData object the caller holds
    vis,        \* export: the last export call: its name, arguments, outcome and
                \*         the Visibility it returned
    batch       \* batch driver: the task list, the tasks run and the results

codec_vars == <<uv, h5, uv_read, codec_pc>>
loader_vars == <<raw, env, caller, ret, held>>
export_vars == <<uvd, vis>>
vars == <<uv, h5, uv_read, codec_pc, raw, env, caller, ret, held, uvd, vis, batch>>

(***************************************************************************)
(* Bounds of the model.                                                    *)
(***************************************************************************)
MaxNt == 2          \* time steps of a model given to the codec
MaxNf == 2          \* channels of a model given to the codec
MaxCodecAnt == 2    \* antennas of a model given to the codec
MaxBlocks == 2      \* n_blocks of a raw container
MaxSamples == 2     \* n_samples of a raw container
MaxChans == 2       \* n_chans of a raw container
MaxAnts == 2        \* n_antennas of a raw container
MaxMissing == 1     \* required root attributes a defective container lacks

\* 15 degrees per hour of angle: pc.ra.to('hourangle')
DegPerHour == 15

(***************************************************************************)
(* Small helpers.                                                          *)
(***************************************************************************)
EmptyDict == [k \in {} |-> 0]

Range(s) == {s[i] : i \in DOMAIN s}

Max(S) == CHOOSE x \in S : \A y \in S : y <= x

\* d[k] = v, as Python's item assignment on a dict
DictSet(d, k, v) == [x \in DOMAIN d \cup {k} |-> IF x = k THEN v ELSE d[x]]

\* texts used by the models below, as code points
TxtXX == <<88, 88>>
TxtXY == <<88, 89>>
TxtYX == <<89, 88>>
TxtYY == <<89, 89>>
TxtI == <<73>>
TxtQ == <<81>>
TxtA1 == <<65, 49>>
TxtA10 == <<65, 49, 48>>
TxtX == <<120>>
TxtY == <<121>>
TxtZ == <<122>>

(***************************************************************************)
(* numpy arrays: [dtype, values].  dtype "U" is text, "S" fixed-width      *)
(* bytes, anything else numeric.  A "U" array holds a sequence of texts; a *)
(* "S" array holds [width, items], every item padded with NUL to width.    *)
(***************************************************************************)
Arr(dtype, values) == [dtype |-> dtype, values |-> values]

PadTo(s, w) == [i \in 1..w |-> IF i <= Len(s) THEN s[i] ELSE 0]

RECURSIVE StripNul(_)
StripNul(s) ==
    IF Len(s) > 0 /\ s[Len(s)] = 0 THEN StripNul(SubSeq(s, 1, Len(s) - 1)) ELSE s

\* darr.astype('bytes') on a text array: ASCII, fixed width = the longest item
AsTypeBytes(darr) ==
    LET w == Max({Len(darr.values[i]) : i \in DOMAIN darr.values} \cup {1})
    IN  Arr("S", [width |-> w,
                  items |-> [i \in DOMAIN darr.values |-> PadTo(darr.values[i], w)]])

\* darr.astype('str') on a bytes array: trailing NULs do not belong to an item
AsTypeStr(darr) ==
    Arr("U", [i \in DOMAIN darr.values.items |-> StripNul(darr.values.items[i])])

_str2bytes(darr) ==
    IF darr.dtype = "U" THEN AsTypeBytes(darr) ELSE darr

\* _set_attrs(dobj, dset): every attribute of dobj is set on dset
_set_attrs(dobj_attrs, dset_attrs) ==
    [k \in DOMAIN dset_attrs \cup DOMAIN dobj_attrs |->
        IF k \in DOMAIN dobj_attrs THEN dobj_attrs[k] ELSE dset_attrs[k]]

\* _create_dset(group, name, dobj): the dataset created
_create_dset(dobj) ==
    [data |-> _str2bytes(dobj.arr), attrs |-> _set_attrs(dobj.attrs, EmptyDict)]

\* a dataset with one more attribute
WithAttr(dset, k, v) == [dset EXCEPT !.attrs = DictSet(dset.attrs, k, v)]

(***************************************************************************)
(* Angles.                                                                 *)
(***************************************************************************)
Quantity(nums, unit) == [num |-> nums, unit |-> unit]

\* q.to(unit) between degrees and hour angle
AngleTo(q, unit) ==
    IF q.unit = unit THEN q
    ELSE IF q.unit = "deg" /\ unit = "hourangle"
         THEN Quantity([i \in DOMAIN q.num |-> q.num[i] \div DegPerHour], unit)
         ELSE Quantity([i \in DOMAIN q.num |-> q.num[i] * DegPerHour], unit)

(***************************************************************************)
(* Provenance and context: key -> a scalar or a depth-1 mapping of scalars.*)
(***************************************************************************)
Scalar(x) == [tag |-> "scalar", s |-> x, m |-> EmptyDict]
Mapping(d) == [tag |-> "map", s |-> "", m |-> d]


(***************************************************************************)
(* uv_to_uv5: the container written for a UV object.                       *)
(* A group is a record with its HDF5 attributes in field attrs; a dataset  *)
(* is [data, attrs].                                                       *)
(***************************************************************************)
VisDims == <<"time", "frequency", "baseline", "polarization">>

\* the VISIBILITY GROUP
WriteVisibilities(u) ==
    LET c == u.data.coords
        g_vis_time ==
            [attrs |-> DictSet(_set_attrs(u.data.time_attrs, EmptyDict),
                               "description", "Time coordinate"),
             mjd  |-> WithAttr(_create_dset(c.mjd), "description", "Modified Julian Date"),
             lst  |-> WithAttr(_create_dset(c.lst), "description",
                               "Local apparent sidereal time"),
             unix |-> WithAttr(_create_dset(c.unix), "description",
                               "Unix timestamp (seconds since 1970-01-01 00:00:00 UTC)")]
        g_vis_bl ==
            [attrs |-> DictSet(EmptyDict, "description",
                               "Antenna baseline coordinate. UVW defined as ant2 - ant1."),
             ant1 |-> WithAttr(_create_dset(c.ant1), "description", "Baseline antenna 1 index"),
             ant2 |-> WithAttr(_create_dset(c.ant2), "description", "Baseline antenna 2 index")]
    IN  [attrs  |-> EmptyDict,
         data   |-> WithAttr(_create_dset([arr |-> u.data.arr, attrs |-> u.data.attrs]),
                             "dims", VisDims),
         coords |-> [time         |-> g_vis_time,
                     baseline     |-> g_vis_bl,
                     polarization |-> WithAttr(_create_dset(c.polarization), "description",
                                               "Polarization products coordinate"),
                     frequency    |-> _create_dset(c.frequency)],
         dims   |-> [d \in Range(VisDims) |->
                        u.data.arr.shape[CHOOSE ii \in DOMAIN VisDims : VisDims[ii] = d]]]

\* the ANTENNA GROUP
WriteAntennas(u) ==
    LET a == u.antennas
        AntDims == <<"antenna", "spatial">>
    IN  [attrs  |-> EmptyDict,
         enu    |-> WithAttr(_create_dset(a.enu), "dims", AntDims),
         ecef   |-> WithAttr(_create_dset(a.ecef), "dims", AntDims),
         coords |-> [antenna |-> WithAttr(_create_dset(a.coords.antenna),
                                          "description", "Antenna index"),
                     spatial |-> WithAttr(_create_dset(a.coords.spatial),
                                          "description", "Spatial location (XYZ)")],
         g_attrs |-> [k \in {"identifier", "flags", "array_origin_geocentric",
                             "array_origin_geodetic"} |-> _create_dset(a.attrs[k])],
         dims   |-> [antenna |-> a.dims.antenna, spatial |-> a.dims.spatial]]

\* the PHASE CENTER group: a scalar centre is stored as a one-element array
WritePhaseCenter(u) ==
    LET pc  == u.phase_center
        ra  == AngleTo(pc.ra, "hourangle")
        dec == AngleTo(pc.dec, "deg")
        shp == IF pc.shape = <<>> THEN <<1>> ELSE pc.shape
    IN  [attrs |-> EmptyDict,
         ra    |-> [data |-> ra.num, shape |-> shp,
                    attrs |-> [unit |-> "hourangle",
                               description |-> "Right Ascension (J2000)"]],
         dec   |-> [data |-> dec.num, shape |-> shp,
                    attrs |-> [unit |-> "deg",
                               description |-> "Declination (J2000)"]]]

\* the PROVENANCE / CONTEXT groups: a dict value becomes a sub-group holding
\* its items as attributes, any other value an attribute of the group itself
WriteTree(d) ==
    [attrs  |-> [k \in {x \in DOMAIN d : d[x].tag # "map"} |-> d[k].s],
     groups |-> [k \in {x \in DOMAIN d : d[x].tag = "map"} |-> d[k].m]]

\* h[group].attrs['description'] = text, set after everything was written
WithDescription(g, text) == [g EXCEPT !.attrs = DictSet(g.attrs, "description", text)]

uv_to_uv5(u) ==
    [attrs        |-> [CLASS |-> "AAVS_UV", VERSION |-> "aavs_uv.__version__",
                       name |-> u.name],
     visibilities |-> WithDescription(WriteVisibilities(u),
                          "Visibility data. (inter-antenna cross-correlations)."),
     antennas     |-> WithDescription(WriteAntennas(u),
                          "Antenna array spatial coordinate details."),
     phase_center |-> WithDescription(WritePhaseCenter(u),
                          "Array phase center / pointing information."),
     provenance   |-> WithDescription(WriteTree(u.provenance),
                          "History and data provenance."),
     context      |-> WithDescription(WriteTree(u.context),
                          "Contextual information about observation.")]


(***************************************************************************)
(* uv5_to_uv: the UV object read from a container.                         *)
(***************************************************************************)
\* an xp.DataArray built from a dataset: values, dims and the dataset's attrs
DataArrayOf(arr, dims, attrs) == [arr |-> arr, dims |-> dims, attrs |-> attrs]

\* the dict named attrs: the four antenna attribute arrays, text decoded
ReadAntennaAttrs(h) ==
    LET g == h.antennas.g_attrs
    IN  [identifier |-> DataArrayOf(AsTypeStr(g.identifier.data), <<"antenna">>,
                                    g.identifier.attrs),
         flags |-> DataArrayOf(g.flags.data, <<"antenna">>, g.flags.attrs),
         array_origin_geocentric |->
             DataArrayOf(g.array_origin_geocentric.data, <<"spatial">>,
                         g.array_origin_geocentric.attrs),
         array_origin_geodetic |->
             DataArrayOf(g.array_origin_geodetic.data, <<"spatial">>,
                         g.array_origin_geodetic.attrs)]

ReadAntennas(h) ==
    LET g      == h.antennas
        coords == [antenna |-> g.coords.antenna.data,
                   spatial |-> AsTypeStr(g.coords.spatial.data)]
        dims   == <<"antenna", "spatial">>
    IN  [enu    |-> DataArrayOf(g.enu.data, dims, g.enu.attrs),
         ecef   |-> DataArrayOf(g.ecef.data, dims, g.ecef.attrs),
         coords |-> coords,
         attrs  |-> ReadAntennaAttrs(h)]

\* a faulty reading: the mjd level taken from the lst dataset
ReadTimeCoord_lst_for_mjd(h) ==
    LET g == h.visibilities.coords.time
    IN  [mjd |-> g.lst.data, lst |-> g.lst.data, unix |-> g.unix.data]

\* Coordinate - time: the three levels of the time index, in this order
ReadTimeCoord(h) ==
    LET g == h.visibilities.coords.time
    IN  [mjd |-> g.mjd.data, lst |-> g.lst.data, unix |-> g.unix.data]

\* Coordinate - baseline
ReadBaselineCoord(h) ==
    LET g == h.visibilities.coords.baseline
    IN  [ant1 |-> g.ant1.data, ant2 |-> g.ant2.data]

\* Coordinate - polarization
ReadPolCoord(h) == AsTypeStr(h.visibilities.coords.polarization.data)

\* Coordinate - frequency
ReadFreqCoord(h) == h.visibilities.coords.frequency.data

\* the attrs handed to the visibility DataArray: the name attrs is bound, at
\* this point of uv5_to_uv, to the dict of antenna attribute arrays
ReadVisAttrs(h) == ReadAntennaAttrs(h)

ReadVis(h) ==
    LET g == h.visibilities
        t == ReadTimeCoord(h)
        b == ReadBaselineCoord(h)
    IN  [arr    |-> g.data.data,
         dims   |-> <<"time", "frequency", "baseline", "polarization">>,
         attrs  |-> ReadVisAttrs(h),
         coords |-> [mjd |-> t.mjd, lst |-> t.lst, unix |-> t.unix,
                     ant1 |-> b.ant1, ant2 |-> b.ant2,
                     polarization |-> ReadPolCoord(h),
                     frequency |-> ReadFreqCoord(h)],
         coord_attrs |-> [time         |-> g.coords.time.attrs,
                          polarization |-> g.coords.polarization.attrs,
                          baseline     |-> g.coords.baseline.attrs,
                          frequency    |-> g.coords.frequency.attrs]]

\* a faulty reading: both angles taken as degrees, whatever the stored tags say
ReadPhaseCenter_degrees(h) ==
    LET g == h.phase_center
    IN  [shape |-> g.ra.shape,
         ra    |-> Quantity(g.ra.data, "deg"),
         dec   |-> Quantity(g.dec.data, "deg")]

\* SkyCoord(ra[:], dec[:], unit=(ra.attrs['unit'], dec.attrs['unit']))
ReadPhaseCenter(h) ==
    LET g == h.phase_center
    IN  [shape |-> g.ra.shape,
         ra    |-> Quantity(g.ra.data, g.ra.attrs.unit),
         dec   |-> Quantity(g.dec.data, g.dec.attrs.unit)]

\* dict(g.attrs.items()), then one entry per sub-group (which replaces an
\* attribute of the same name)
ReadTree(g) ==
    [k \in DOMAIN g.attrs \cup DOMAIN g.groups |->
        IF k \in DOMAIN g.groups THEN Mapping(g.groups[k]) ELSE Scalar(g.attrs[k])]

uv5_to_uv(h) ==
    [name         |-> h.attrs.name,
     antennas     |-> ReadAntennas(h),
     context      |-> ReadTree(h.context),
     data         |-> ReadVis(h),
     timestamps   |-> ReadTimeCoord(h).unix,
     origin       |-> h.antennas.g_attrs.array_origin_geocentric.data,
     phase_center |-> ReadPhaseCenter(h),
     provenance   |-> ReadTree(h.provenance)]


(***************************************************************************)
(* The valid UV objects given to the codec.                                *)
(***************************************************************************)
\* all antenna pairs ant1 <= ant2 of n antennas, in antenna-index order
BaselinePairs(n) ==
    LET S == {p \in (0..(n - 1)) \X (0..(n - 1)) : p[1] <= p[2]}
        Before(p, q) == p[1] < q[1] \/ (p[1] = q[1] /\ p[2] < q[2])
    IN  [i \in 1..Cardinality(S) |->
            CHOOSE p \in S : Cardinality({q \in S : Before(q, p)}) = i - 1]

\* a visibility sample that differs at every index
VisSample(seed, t, f, b, p) == <<seed + 1000 * t + 100 * f + 10 * b + p, t - p>>

VisTensor(seed, nt, nf, nb, np) ==
    [dtype  |-> "c16",
     shape  |-> <<nt, nf, nb, np>>,
     values |-> [ix \in (1..nt) \X (1..nf) \X (1..nb) \X (1..np) |->
                    VisSample(seed, ix[1], ix[2], ix[3], ix[4])]]

\* a coordinate or attribute array with its attributes
Dobj(arr, attrs) == [arr |-> arr, attrs |-> attrs]

PolChoices == {<<TxtXX, TxtXY, TxtYX, TxtYY>>, <<TxtI, TxtQ>>}

DataAttrsChoices ==
    {[unit |-> "uncalibrated"], [unit |-> "Jy", calibrated |-> "yes"], EmptyDict}

ProvenanceChoices ==
    {EmptyDict,
     [observer |-> Scalar("jd")],
     [input_files |-> Mapping([data_filename |-> "a.hdf5", config_filename |-> "c.yaml"]),
      history |-> Scalar("created")],
     [description |-> Scalar("my reduction")],
     [description |-> Mapping([text |-> "nested"])]}

ContextChoices ==
    {EmptyDict,
     [intent |-> Scalar("calibration"), notes |-> Mapping(EmptyDict)],
     [description |-> Scalar("drift scan")]}

\* degrees, hours: the angle of that many whole degrees (hours)
Degrees(x) == Quantity([i \in DOMAIN x |-> x[i] * DegPerHour], "deg")
Hours(x) == Quantity([i \in DOMAIN x |-> x[i] * DegPerHour], "hourangle")

\* the value of an angle in degrees (times DegPerHour), whatever its unit
InDegrees(q) ==
    IF q.unit = "hourangle" THEN [i \in DOMAIN q.num |-> q.num[i] * DegPerHour]
    ELSE q.num

\* a single fixed centre (shape <<>>) or one centre per time step
PhaseCenterChoices(nt) ==
    {[shape |-> <<>>, ra |-> Degrees(<<31>>), dec |-> Degrees(<<-27>>)],
     [shape |-> <<>>, ra |-> Hours(<<2>>), dec |-> Degrees(<<10>>)],
     [shape |-> <<nt>>, ra |-> Degrees([i \in 1..nt |-> 31 + i]),
                        dec |-> Degrees([i \in 1..nt |-> -27])]}

AntennaTable(nant) ==
    [enu    |-> Dobj(Arr("f8", [a \in 1..nant |-> <<a, 2 * a, 0>>]), EmptyDict),
     ecef   |-> Dobj(Arr("f8", [a \in 1..nant |-> <<100 + a, 200 + a, 300>>]), EmptyDict),
     coords |-> [antenna |-> Dobj(Arr("i8", [a \in 1..nant |-> a - 1]), EmptyDict),
                 spatial |-> Dobj(Arr("U", <<TxtX, TxtY, TxtZ>>), EmptyDict)],
     attrs  |-> [identifier |-> Dobj(Arr("U", [a \in 1..nant |->
                                                  IF a = 1 THEN TxtA10 ELSE TxtA1]),
                                     [description |-> "Antenna name / identifier"]),
                 flags |-> Dobj(Arr("b1", [a \in 1..nant |-> FALSE]),
                                [description |-> "Data quality issue flags"]),
                 array_origin_geocentric |->
                     Dobj(Arr("f8", <<100, 200, 300>>), [unit |-> "m"]),
                 array_origin_geodetic |->
                     Dobj(Arr("f8", <<116, -26, 300>>), [unit |-> "deg,deg,m"])],
     dims   |-> [antenna |-> nant, spatial |-> 3]]

MakeUV(nt, nf, nant, pol, seed, dattrs, prov, ctx, pc) ==
    LET bl == BaselinePairs(nant)
    IN  [name |-> "AAVS3",
         antennas |-> AntennaTable(nant),
         data |-> [arr   |-> VisTensor(seed, nt, nf, Len(bl), Len(pol)),
                   dims  |-> VisDims,
                   attrs |-> dattrs,
                   time_attrs |-> [resolution |-> "2", resolution_unit |-> "s"],
                   coords |->
                     [mjd  |-> Dobj(Arr("f8", [i \in 1..nt |-> 60000 + seed + i]), EmptyDict),
                      lst  |-> Dobj(Arr("f8", [i \in 1..nt |-> 7 * i]), EmptyDict),
                      unix |-> Dobj(Arr("f8", [i \in 1..nt |-> 1700000000 + 2 * i]),
                                    EmptyDict),
                      ant1 |-> Dobj(Arr("i8", [b \in DOMAIN bl |-> bl[b][1]]), EmptyDict),
                      ant2 |-> Dobj(Arr("i8", [b \in DOMAIN bl |-> bl[b][2]]), EmptyDict),
                      polarization |-> Dobj(Arr("U", pol), EmptyDict),
                      frequency |-> Dobj(Arr("f8", [j \in 1..nf |-> 1000000 * (seed + j)]),
                                         [unit |-> "Hz"])]],
         phase_center |-> pc,
         provenance |-> prov,
         context |-> ctx]

\* the provenance and context records a model carries
RecordChoices ==
    (ProvenanceChoices \X {EmptyDict})
        \cup ({[observer |-> Scalar("jd")]} \X ContextChoices)

ValidUVs ==
    UNION {UNION {{MakeUV(nt, nf, nant, pol, nt, da, rec[1], rec[2], pc) :
                        pc \in PhaseCenterChoices(nt)} :
                    nf \in 1..MaxNf, nant \in 1..MaxCodecAnt, pol \in PolChoices,
                    da \in DataAttrsChoices, rec \in RecordChoices} :
           nt \in 1..MaxNt}

(***************************************************************************)
(* The codec as a state machine: a model is written, then read back.       *)
(***************************************************************************)
NoFile == [attrs |-> EmptyDict]
NoUV == [name |-> ""]

NoRaw == [root |-> EmptyDict]
NoEnv == [files |-> {}]
NoCall == [op |-> "none"]
NoHeld == [file |-> ""]
NoUVData == [telescope_name |-> ""]
NoExport == [op |-> "none"]
NoBatch == [pc |-> "idle"]

InitCodec ==
    /\ uv \in ValidUVs
    /\ h5 = NoFile
    /\ uv_read = NoUV
    /\ codec_pc = "init"
    /\ raw = NoRaw
    /\ env = NoEnv
    /\ caller = EmptyDict
    /\ ret = NoCall
    /\ held = NoHeld
    /\ uvd = NoUVData
    /\ vis = NoExport
    /\ batch = NoBatch

\* uv_to_uv5(uv, filename)
Write ==
    /\ codec_pc = "init"
    /\ h5' = uv_to_uv5(uv)
    /\ codec_pc' = "written"
    /\ UNCHANGED <<uv, uv_read>>
    /\ UNCHANGED loader_vars
    /\ UNCHANGED <<uvd, vis, batch>>

\* uv_read = uv5_to_uv(filename)
Read ==
    /\ codec_pc = "written"
    /\ uv_read' = uv5_to_uv(h5)
    /\ codec_pc' = "read"
    /\ UNCHANGED <<uv, h5>>
    /\ UNCHANGED loader_vars
    /\ UNCHANGED <<uvd, vis, batch>>

NextCodec == Write \/ Read

SpecCodec == InitCodec /\ [][NextCodec]_vars


(***************************************************************************)
(* Claims about the container codec (checked under SpecCodec).             *)
(***************************************************************************)
CoordNames == {"mjd", "lst", "unix", "ant1", "ant2", "frequency", "polarization"}

\* C1: after uv5_to_uv(uv_to_uv5(m)) the visibility tensor has m's shape and
\* m's value at every (time, frequency, baseline, polarization) index, the
\* same dimension order, and the mjd, lst, unix, ant1, ant2, frequency and
\* polarization coordinates hold m's values in m's order.
C1_VisibilityRoundTrip ==
    codec_pc = "read" =>
        /\ uv_read.data.arr.shape = uv.data.arr.shape
        /\ DOMAIN uv_read.data.arr.values = DOMAIN uv.data.arr.values
        /\ \A ix \in DOMAIN uv.data.arr.values :
              uv_read.data.arr.values[ix] = uv.data.arr.values[ix]
        /\ uv_read.data.dims = uv.data.dims
        /\ \A c \in CoordNames :
              uv_read.data.coords[c].values = uv.data.coords[c].arr.values

\* C1 witness: a model with two time steps, three baselines and four text
\* polarization labels has been written and read back.
C1_Witness ==
    /\ codec_pc = "read"
    /\ uv.data.arr.shape[1] = 2
    /\ uv.data.arr.shape[3] = 3
    /\ uv.data.coords.polarization.arr.values = <<TxtXX, TxtXY, TxtYX, TxtYY>>
    /\ uv_read.data.coords.mjd.values # uv_read.data.coords.lst.values

\* C2: (the claim as stated) the provenance and context read back have
\* exactly the key set of the model written and the same value under every
\* key, also when the model uses a top-level key named 'description'.
C2_ProvenanceContextRoundTrip ==
    codec_pc = "read" =>
        /\ uv_read.provenance = uv.provenance
        /\ uv_read.context = uv.context

\* C3: (the claim as stated) every attribute of the model's visibility
\* tensor is an attribute of the tensor read back, with the same value, and
\* the tensor read back has no other attribute.
C3_VisAttrsRoundTrip ==
    codec_pc = "read" =>
        /\ \A k \in DOMAIN uv.data.attrs :
              /\ k \in DOMAIN uv_read.data.attrs
              /\ uv_read.data.attrs[k] = uv.data.attrs[k]
        /\ DOMAIN uv_read.data.attrs \subseteq DOMAIN uv.data.attrs

\* the phase centre is stored tagged hourangle / deg, read with the stored
\* tags, and the angles read back equal the angles written
PhaseCenterValuesKept ==
    /\ h5.phase_center.ra.attrs.unit = "hourangle"
    /\ h5.phase_center.dec.attrs.unit = "deg"
    /\ uv_read.phase_center.ra.unit = h5.phase_center.ra.attrs.unit
    /\ uv_read.phase_center.dec.unit = h5.phase_center.dec.attrs.unit
    /\ InDegrees(uv_read.phase_center.ra) = InDegrees(uv.phase_center.ra)
    /\ InDegrees(uv_read.phase_center.dec) = InDegrees(uv.phase_center.dec)

\* C4: (the claim as stated) the phase centre read back equals the one
\* written in value and in shape, for a scalar centre and for one centre per
\* time step.
C4_PhaseCenterRoundTrip_Original ==
    codec_pc = "read" =>
        /\ PhaseCenterValuesKept
        /\ uv_read.phase_center.shape = uv.phase_center.shape

\* C4: (amended) the phase centre read back equals the one written in value,
\* with the stored unit tags hourangle / deg; one centre per time step keeps
\* its shape, and a scalar centre is read back as a one-element array.
C4_PhaseCenterRoundTrip ==
    codec_pc = "read" =>
        /\ PhaseCenterValuesKept
        /\ uv_read.phase_center.shape =
              IF uv.phase_center.shape = <<>> THEN <<1>> ELSE uv.phase_center.shape

\* C4 witness: a scalar centre given in degrees, with a right ascension that
\* is not zero, has been written and read back.
C4_Witness ==
    /\ codec_pc = "read"
    /\ uv.phase_center.shape = <<>>
    /\ uv.phase_center.ra.unit = "deg"
    /\ uv.phase_center.ra.num[1] # 0
    /\ uv_read.phase_center.ra.num[1] # uv.phase_center.ra.num[1]


(***************************************************************************)
(* The raw correlator container and the station configuration.             *)
(***************************************************************************)
\* complex numbers
Conj(z) == <<z[1], -z[2]>>
Mul(x, y) == <<x[1] * y[1] - x[2] * y[2], x[1] * y[2] + x[2] * y[1]>>

\* a physical observation: the voltage of antenna a (counted from 0),
\* receptor "A" or "B", at time step t and channel f
Voltage(a, rec, t, f) ==
    IF rec = "A" THEN <<a + 1, t + f>> ELSE <<t - a, f + 2 + a>>

\* what the correlator emits for baseline (a1, a2), in the two orders
\*     default order: A1A2*, A1B2*, B1A2*, B1B2*
\*     swapped order: A2A1*, A2B1*, B2A1*, B2B1*
Correlate(order, a1, a2, t, f, p) ==
    LET r1 == IF p \in {1, 2} THEN "A" ELSE "B"
        r2 == IF p \in {1, 3} THEN "A" ELSE "B"
    IN  IF order = "default"
        THEN Mul(Voltage(a1, r1, t, f), Conj(Voltage(a2, r2, t, f)))
        ELSE Mul(Voltage(a2, r1, t, f), Conj(Voltage(a1, r2, t, f)))

\* the correlation_matrix/data payload of that observation, (t, f, bl, p)
Payload(order, nt, nf, nant) ==
    LET bl == BaselinePairs(nant)
    IN  [dtype  |-> "c8",
         shape  |-> <<nt, nf, Len(bl), 4>>,
         values |-> [ix \in (1..nt) \X (1..nf) \X (1..Len(bl)) \X (1..4) |->
                        Correlate(order, bl[ix[3]][1], bl[ix[3]][2], ix[1], ix[2], ix[4])]]

\* the root attributes a correlator file carries
expected_keys ==
    {"n_antennas", "ts_end", "n_pols", "n_beams", "tile_id", "n_chans", "n_samples",
     "type", "data_type", "data_mode", "ts_start", "n_baselines", "n_stokes",
     "channel_id", "timestamp", "date_time", "n_blocks"}

RootAttrs(nb, ns, nc, nant, chid, ts_attr) ==
    [n_antennas |-> nant, ts_end |-> ts_attr + nb * ns, n_pols |-> 2, n_beams |-> 1,
     tile_id |-> 0, n_chans |-> nc, n_samples |-> ns, type |-> "CORRELATOR",
     data_type |-> "complex64", data_mode |-> "", ts_start |-> ts_attr,
     n_baselines |-> (nant * (nant + 1)) \div 2, n_stokes |-> 4, channel_id |-> chid,
     timestamp |-> ts_attr, date_time |-> "20231012_13426", n_blocks |-> nb]

\* the attributes of the observation_info group
ObsInfoAttrs ==
    [description |-> "burst", firmware_version |-> "fw5", software_version |-> "sw2",
     station_config |-> "station.yml"]

Without(d, keys) == [k \in DOMAIN d \ keys |-> d[k]]

\* a raw container: first is the first recorded sample of sample_timestamps
MakeRaw(nb, ns, nc, nant, chid, ts_attr, first, order, missing, has_ts, obs) ==
    [name  |-> "burst.hdf5",
     order |-> order,
     root  |-> Without(RootAttrs(nb, ns, nc, nant, chid, ts_attr), missing),
     data  |-> Payload(order, nb * ns, nc, nant),
     has_timestamps    |-> has_ts,
     sample_timestamps |-> [i \in 1..(nb * ns) |-> <<first + i - 1>>],
     has_observation_info |-> obs # "absent",
     observation_info  |-> IF obs = "full" THEN ObsInfoAttrs
                           ELSE IF obs = "partial"
                                THEN Without(ObsInfoAttrs, {"firmware_version"})
                                ELSE EmptyDict]

\* paths: the directory (a sequence of names) and the file name
Path(dir, base) == [dir |-> dir, base |-> base]
NonePath == Path(<<>>, "None")
ObsYaml == Path(<<"obs">>, "uv_config.yaml")
LostYaml == Path(<<"lost">>, "uv_config.yaml")
BrokenYaml == Path(<<"obs">>, "broken.yaml")

\* the station YAML: tsamp in ticks, channel_spacing in Hz; extra is what the
\* file defines on top of the station keys
StationYaml(tsamp, spacing, width, conj, transpose, extra) ==
    extra @@
    [telescope_name |-> "AAVS3", antenna_locations_file |-> "antenna_locations.txt",
     baseline_order_file |-> "baseline_order.txt", tsamp |-> tsamp,
     channel_spacing |-> spacing, channel_width |-> width,
     conjugate_hdf5 |-> conj, transpose_hdf5 |-> transpose, receptor_angle |-> 0,
     vis_units |-> "uncalibrated", telescope_ECEF_X |-> 100, telescope_ECEF_Y |-> 200,
     telescope_ECEF_Z |-> 300]

(***************************************************************************)
(* utils: the bundled configurations and the YAML reader.                  *)
(***************************************************************************)
\* get_resource_path: the path is built and returned whether or not it exists
get_resource_path(relative_path) == Path(<<"pkg">> \o relative_path, "uv_config.yaml")

\* get_config_path(name): [outcome, path]
get_config_path(name) ==
    IF name = "None" THEN [outcome |-> "RuntimeError", path |-> NonePath]
    ELSE [outcome |-> "ok", path |-> get_resource_path(<<"config", name>>)]

\* load_yaml(filename): [outcome, d, log].  yaml.load(open(filename, 'r'), ...)
\* never closes the file it opens: the handle is released when the file
\* object is collected, which a reference-counting interpreter does as
\* load_yaml returns and a tracing one at some later time; while a parse
\* error propagates, its traceback keeps the file object alive
load_yaml(e, filename) ==
    IF filename \notin e.files
    THEN [outcome |-> "FileNotFoundError", d |-> EmptyDict, log |-> <<>>]
    ELSE IF filename \in e.malformed
    THEN [outcome |-> "YAMLError", d |-> EmptyDict, log |-> <<"open:yaml", "read:yaml">>]
    ELSE [outcome |-> "ok", d |-> e.yaml,
          log |-> <<"open:yaml", "read:yaml">>
                  \o (IF e.collector = "refcount" THEN <<"close:yaml">> ELSE <<>>)]

(***************************************************************************)
(* to_uvx: get_hdf5_metadata and load_observation_metadata.                *)
(* A call returns [outcome, md, log]: outcome is "ok" or the exception     *)
(* raised, md the metadata returned (empty when it raised), log the        *)
(* accesses to the file system in the order they happened.                 *)
(***************************************************************************)
Raise(exc, log) == [outcome |-> exc, md |-> EmptyDict, log |-> log]
Return(md, log) == [outcome |-> "ok", md |-> md, log |-> log]

\* a faulty check: n_baselines is not among the keys looked for
get_hdf5_metadata_unchecked(r) ==
    LET log0 == <<"open:raw", "attrs:root">>
    IN  IF (expected_keys \ {"n_baselines"}) \ DOMAIN r.root # {}
        THEN Raise("MissingMetadata", log0 \o <<"close:raw">>)
        ELSE Return(DictSet(DictSet(DictSet(r.root,
                        "n_integrations", r.root.n_blocks * r.root.n_samples),
                        "data_shape", r.data.shape),
                        "ts_start", r.sample_timestamps[1][1]),
                    log0 \o <<"shape:correlation_matrix/data",
                              "read:sample_timestamps/data", "close:raw">>)

\* get_hdf5_metadata(filename); Exception('Missing metadata in file') is the
\* outcome "MissingMetadata"
get_hdf5_metadata(r) ==
    LET log0 == <<"open:raw", "attrs:root">>
    IN  IF expected_keys \ DOMAIN r.root # {}
        THEN Raise("MissingMetadata", log0 \o <<"close:raw">>)
        ELSE LET md1  == DictSet(DictSet(r.root,
                            "n_integrations", r.root.n_blocks * r.root.n_samples),
                            "data_shape", r.data.shape)
                 log1 == log0 \o <<"shape:correlation_matrix/data">>
             IN  IF ~r.has_timestamps
                 THEN Raise("KeyError", log1 \o <<"close:raw">>)
                 ELSE Return(DictSet(md1, "ts_start", r.sample_timestamps[1][1]),
                             log1 \o <<"read:sample_timestamps/data", "close:raw">>)

\* md.update(md_yaml): every key of the YAML replaces the key of md
DictUpdate(md, md_yaml) == md_yaml @@ md

\* load_observation_metadata(filename, yaml_config, load_config)
load_observation_metadata(r, e, yaml_config, load_config) ==
    LET got == get_hdf5_metadata(r)
        cfg == IF yaml_config = NonePath THEN get_config_path(load_config)
               ELSE [outcome |-> "ok", path |-> yaml_config]
        yml == load_yaml(e, cfg.path)
    IN  IF got.outcome # "ok" THEN got
        ELSE IF cfg.outcome # "ok" THEN Raise(cfg.outcome, got.log)
        ELSE IF yml.outcome # "ok" THEN Raise(yml.outcome, got.log \o yml.log)
        ELSE LET md == DictSet(DictUpdate(got.md, yml.d), "history",
                               "Created with ska_ost_low_uv")
                 config_abspath == cfg.path.dir
             IN  Return(
                    [md EXCEPT
                        !["antenna_locations_file"] =
                            Path(config_abspath, md.antenna_locations_file),
                        !["baseline_order_file"] =
                            Path(config_abspath, md.baseline_order_file)]
                        @@ [station_config_file |-> cfg.path],
                    got.log \o yml.log)


(***************************************************************************)
(* datamodel.uvx: the builder of the canonical tensor and the empty        *)
(* records.                                                                *)
(***************************************************************************)
\* the position a polarization product is taken from when the two
\* cross-polarization terms are transposed
SwapCross(p) == IF p = 2 THEN 3 ELSE IF p = 3 THEN 2 ELSE p

\* create_visibility_array(data, f, t, eloc, conj, transpose): the payload is
\* already (time, frequency, baseline, polarization); transpose exchanges the
\* two cross-polarization positions, conj conjugates every sample
create_visibility_array(data, f, t, eloc, conj, transpose) ==
    [arr    |-> [dtype  |-> data.dtype,
                 shape  |-> data.shape,
                 values |-> [ix \in DOMAIN data.values |->
                    LET p == IF transpose THEN SwapCross(ix[4]) ELSE ix[4]
                        v == data.values[<<ix[1], ix[2], ix[3], p>>]
                    IN  IF conj THEN Conj(v) ELSE v]],
     dims   |-> VisDims,
     attrs  |-> EmptyDict,
     time   |-> [values_x2 |-> t.unix_x2, attrs |-> EmptyDict],
     frequency |-> [values |-> f, attrs |-> EmptyDict]]

create_empty_provenance_dict == EmptyDict

create_empty_context_dict == [intent |-> "", date |-> "", notes |-> "", observer |-> ""]

\* station_location_from_platform_yaml(file): location and antenna positions
station_location_from_platform_yaml(file) ==
    [eloc |-> [from |-> "platform_yaml", xyz |-> <<0, 0, 0>>, file |-> file],
     antpos |-> [from |-> "platform_yaml", file |-> file]]

\* create_antenna_data_array(antpos, eloc, array_rotation_angle)
create_antenna_data_array(antpos, eloc, rot_ang) ==
    [antpos |-> antpos, origin |-> eloc, array_rotation_angle |-> rot_ang]

(***************************************************************************)
(* to_uvx: hdf5_to_uvx.                                                    *)
(***************************************************************************)
\* a faulty axis: the time stamps mark the start of each integration
TimeAxis_start(md) ==
    [i \in 1..md.n_integrations |-> 2 * ((i - 1) * md.tsamp + md.ts_start)]

\* np.arange(n_integrations) * tsamp + ts_start + tsamp / 2, in half ticks
TimeAxis(md) ==
    [i \in 1..md.n_integrations |-> 2 * ((i - 1) * md.tsamp + md.ts_start) + md.tsamp]

\* a faulty axis: the channel index counted from zero
FreqAxis_zero_based(md) ==
    [j \in 1..md.n_chans |-> (j - 1) * md.channel_spacing * md.channel_id]

\* (np.arange(n_chans) + 1) * channel_spacing * channel_id
FreqAxis(md) ==
    [j \in 1..md.n_chans |-> ((j - 1) + 1) * md.channel_spacing * md.channel_id]

\* a faulty call: the cross-polarization terms are never transposed
BuilderFlags_no_transpose(md, load_data) ==
    IF load_data THEN [conj |-> md.conjugate_hdf5, transpose |-> FALSE]
    ELSE [conj |-> FALSE, transpose |-> FALSE]

\* the conj, transpose arguments create_visibility_array is called with
BuilderFlags(md, load_data) ==
    IF load_data THEN [conj |-> md.conjugate_hdf5, transpose |-> md.transpose_hdf5]
    ELSE [conj |-> FALSE, transpose |-> FALSE]

\* the records hdf5_to_uvx puts into the provenance dict
ProvenanceUpdate(r, md) ==
    [input_files |-> [data_filename |-> Path(<<"cwd">>, r.name),
                      config_filename |-> md.station_config_file],
     ska_ost_low_uv_config |-> [ska_ost_low_uv |-> "version", numpy |-> "version"],
     input_metadata |-> md]

\* the station_config entry: set only if all four attributes can be read
WithObservationInfo(prov, r) ==
    IF r.has_observation_info
       /\ {"description", "firmware_version", "software_version", "station_config"}
             \subseteq DOMAIN r.observation_info
    THEN DictSet(prov, "station_config",
            [observation_description |-> r.observation_info.description,
             tpm_firmware_version    |-> r.observation_info.firmware_version,
             daq_software_version    |-> r.observation_info.software_version,
             station_config_yaml     |-> r.observation_info.station_config])
    ELSE prov

NoUVX == [name |-> ""]

\* an optional dict argument: None, or the caller's dict
NoneArg == [given |-> FALSE, d |-> EmptyDict]
DictArg(d) == [given |-> TRUE, d |-> d]

\* hdf5_to_uvx(fn_data, telescope_name, yaml_config, from_platform_yaml,
\*             context, provenance, load_data):
\* [outcome, md, log, uvx, provenance, flags]; provenance is the dict the
\* call updated (the caller's own when one was passed), flags the conj and
\* transpose the builder was called with
hdf5_to_uvx(r, e, from_platform_yaml, context, provenance, load_data) ==
    LET got == load_observation_metadata(r, e, e.yaml_config, e.telescope_name)
        md  == got.md
    IN  IF got.outcome # "ok"
        THEN [outcome |-> got.outcome, md |-> EmptyDict, log |-> got.log,
              uvx |-> NoUVX, provenance |-> provenance.d, flags |-> EmptyDict]
        ELSE
        LET loc  == IF from_platform_yaml
                    THEN station_location_from_platform_yaml(md.antenna_locations_file)
                    ELSE [eloc |-> [from |-> "geocentric",
                                    xyz |-> <<md.telescope_ECEF_X, md.telescope_ECEF_Y,
                                              md.telescope_ECEF_Z>>,
                                    file |-> NonePath],
                          antpos |-> [from |-> "csv", file |-> md.antenna_locations_file]]
            t    == [unix_x2 |-> TimeAxis(md), location |-> loc.eloc]
            f    == FreqAxis(md)
            flags == BuilderFlags(md, load_data)
            built == create_visibility_array(r.data, f, t, loc.eloc,
                                             flags.conj, flags.transpose)
            data == [built EXCEPT
                        !.attrs = DictSet(built.attrs, "unit", md.vis_units),
                        !.time.attrs = [resolution |-> md.tsamp, resolution_unit |-> "s"],
                        !.frequency.attrs =
                            [resolution |-> md.channel_spacing,
                             channel_spacing |-> md.channel_spacing,
                             channel_bandwidth |-> md.channel_width,
                             channel_id |-> md.channel_id,
                             resolution_unit |-> "Hz"]
                            @@ (IF md.channel_width > md.channel_spacing
                                THEN [oversampled |-> TRUE] ELSE EmptyDict)]
            prov0 == IF provenance.given THEN provenance.d
                     ELSE create_empty_provenance_dict
            prov  == WithObservationInfo(DictUpdate(prov0, ProvenanceUpdate(r, md)), r)
            zen_sc == [frame |-> "icrs", zenith_at_x2 |-> t.unix_x2[1],
                       location |-> loc.eloc, shape |-> <<>>]
            context_dict == IF context.given THEN context.d
                            ELSE create_empty_context_dict
        IN  [outcome |-> "ok", md |-> md,
             log |-> got.log
                     \o <<"open:raw", "shape:correlation_matrix/data">>
                     \o (IF from_platform_yaml THEN <<"read:platform_yaml">>
                         ELSE <<"read:antenna_locations_file">>)
                     \o (IF load_data THEN <<"read:correlation_matrix/data">> ELSE <<>>)
                     \o (IF r.has_observation_info THEN <<"attrs:observation_info">>
                         ELSE <<>>)
                     \o <<"close:raw">>,
             uvx |-> [name |-> md.telescope_name,
                      antennas |-> create_antenna_data_array(loc.antpos, loc.eloc,
                                                             md.receptor_angle),
                      context |-> context_dict,
                      data |-> data,
                      timestamps |-> t,
                      origin |-> loc.eloc,
                      phase_center |-> zen_sc,
                      provenance |-> prov],
             provenance |-> prov,
             flags |-> flags]


(***************************************************************************)
(* The raw containers and configurations the loader is run on.             *)
(***************************************************************************)
ChannelIds == {1, 10}
Spacings == {1000000, 781250}

\* keys a station YAML may define on top of the station keys
YamlExtras == {EmptyDict, [ts_start |-> 7], [channel_id |-> 4], [n_antennas |-> 16]}

BundledYaml == get_resource_path(<<"config", "aavs3">>)

\* the files on disk, the interpreter the call runs on, and the call's
\* yaml_config and telescope_name
Env(yaml, yaml_config, telescope_name) ==
    [files |-> {ObsYaml, BundledYaml, BrokenYaml}, malformed |-> {BrokenYaml},
     yaml |-> yaml, collector |-> "refcount",
     yaml_config |-> yaml_config, telescope_name |-> telescope_name]

DefaultYaml == StationYaml(2, 1000000, 925926, FALSE, FALSE, EmptyDict)
DefaultRaw == MakeRaw(1, 1, 1, 1, 10, 100, 100, "default", {}, TRUE,
                      "absent")

\* containers and configurations that differ in the axes they describe
AxisInputs ==
    {<<MakeRaw(nb, ns, nc, 1, chid, ts_attr, 100, "default", {}, TRUE, "absent"),
       Env(StationYaml(tsamp, sp, 925926, FALSE, FALSE, extra), ObsYaml, "None")>> :
        nb \in 1..MaxBlocks, ns \in 1..MaxSamples, nc \in 1..MaxChans,
        chid \in ChannelIds, ts_attr \in {100, 40}, tsamp \in {2, 3},
        sp \in Spacings, extra \in YamlExtras}

\* containers that differ in the payload and configurations in the policy
PayloadInputs ==
    {<<MakeRaw(nb, 1, nc, nant, 10, 100, 100, order, {}, TRUE, "absent"),
       Env(StationYaml(2, 1000000, 925926, cj, tr, EmptyDict), ObsYaml, "None")>> :
        nb \in 1..MaxBlocks, nc \in 1..MaxChans, nant \in 1..MaxAnts,
        order \in {"default", "swapped"}, cj \in BOOLEAN, tr \in BOOLEAN}

\* the subsets of S of at most k elements
RECURSIVE SubsetsUpTo(_, _)
SubsetsUpTo(S, k) ==
    IF k = 0 THEN {{}}
    ELSE LET smaller == SubsetsUpTo(S, k - 1)
         IN  smaller \cup {m \cup {x} : m \in smaller, x \in S}

\* containers that lack required root attributes, the timestamp series, or
\* that carry an observation_info group
DefectiveInputs ==
    {<<MakeRaw(1, 2, 1, 1, 10, 100, 100, "default", missing, TRUE,
               "absent"),
       Env(DefaultYaml, ObsYaml, "None")>> :
        missing \in SubsetsUpTo(expected_keys, MaxMissing) \ {{}}}
    \cup
    {<<MakeRaw(1, 2, 1, 1, 10, 100, 100, "default", {}, has_ts, obs),
       Env(DefaultYaml, ObsYaml, "None")>> :
        has_ts \in BOOLEAN, obs \in {"absent", "full", "partial"}}

\* a container whose root attribute k was written as v, whatever the payload
\* holds
WithRootAttr(r, k, v) == [r EXCEPT !.root = DictSet(r.root, k, v)]

\* containers whose payload (2 time steps, 1 channel, 3 baselines) disagrees
\* with one of the counts in the root attributes
MiscountedInputs ==
    {<<WithRootAttr(MakeRaw(1, 2, 1, 2, 10, 100, 100, "default", {}, TRUE, "absent"),
                    kv[1], kv[2]),
       Env(DefaultYaml, ObsYaml, "None")>> :
        kv \in {<<"n_blocks", 2>>, <<"n_samples", 1>>, <<"n_chans", 2>>,
                 <<"n_baselines", 4>>, <<"n_baselines", 5>>}}

\* calls that name the configuration in every way
ConfigInputs ==
    {<<DefaultRaw, [Env(DefaultYaml, yc, tn) EXCEPT !.collector = c]>> :
        yc \in {NonePath, LostYaml, BrokenYaml}, tn \in {"None", "aavs3", "nosuch"},
        c \in {"refcount", "tracing"}}

LoaderInputs ==
    AxisInputs \cup PayloadInputs \cup DefectiveInputs \cup MiscountedInputs
        \cup ConfigInputs

(***************************************************************************)
(* The loader as a state machine: one call on the files on disk.           *)
(***************************************************************************)
CallerProvenance == [observer |-> "jd"]

InitLoader ==
    /\ \E in \in LoaderInputs : raw = in[1] /\ env = in[2]
    /\ caller = CallerProvenance
    /\ ret = NoCall
    /\ held = NoHeld
    /\ uv = NoUV
    /\ h5 = NoFile
    /\ uv_read = NoUV
    /\ codec_pc = "idle"
    /\ uvd = NoUVData
    /\ vis = NoExport
    /\ batch = NoBatch

\* md = get_hdf5_metadata(filename)
GetHdf5Metadata ==
    /\ ret.op = "none"
    /\ LET got == get_hdf5_metadata(raw)
       IN  ret' = [op |-> "get_hdf5_metadata", outcome |-> got.outcome, md |-> got.md,
                   log |-> got.log, uvx |-> NoUVX, flags |-> EmptyDict,
                   load_data |-> FALSE, provenance_given |-> FALSE]
    /\ UNCHANGED <<raw, env, caller, held>>
    /\ UNCHANGED codec_vars
    /\ UNCHANGED <<uvd, vis, batch>>

\* md = load_observation_metadata(filename, yaml_config, load_config)
LoadObservationMetadata ==
    /\ ret.op = "none"
    /\ LET got == load_observation_metadata(raw, env, env.yaml_config, env.telescope_name)
       IN  ret' = [op |-> "load_observation_metadata", outcome |-> got.outcome,
                   md |-> got.md, log |-> got.log, uvx |-> NoUVX, flags |-> EmptyDict,
                   load_data |-> FALSE, provenance_given |-> FALSE]
    /\ UNCHANGED <<raw, env, caller, held>>
    /\ UNCHANGED codec_vars
    /\ UNCHANGED <<uvd, vis, batch>>

\* uv = hdf5_to_uvx(fn_data, telescope_name, yaml_config, from_platform_yaml,
\*                  context, provenance, load_data)
Hdf5ToUvx ==
    /\ ret.op = "none"
    /\ \E load_data \in BOOLEAN, from_platform_yaml \in BOOLEAN, pass \in BOOLEAN :
          \E got \in {hdf5_to_uvx(raw, env, from_platform_yaml, NoneArg,
                                  IF pass THEN DictArg(caller) ELSE NoneArg,
                                  load_data)} :
              /\ ret' = [op |-> "hdf5_to_uvx", outcome |-> got.outcome, md |-> got.md,
                         log |-> got.log, uvx |-> got.uvx, flags |-> got.flags,
                         load_data |-> load_data, provenance_given |-> pass]
              /\ caller' = IF pass THEN got.provenance ELSE caller
    /\ UNCHANGED <<raw, env, held>>
    /\ UNCHANGED codec_vars
    /\ UNCHANGED <<uvd, vis, batch>>

\* the next file of the observation: another name, recorded 50 ticks later
NextFile(r) ==
    [r EXCEPT !.name = "next.hdf5",
              !.sample_timestamps = [i \in DOMAIN @ |-> <<@[i][1] + 50>>]]

\* uv_a = hdf5_to_uvx(fn_a, ..., provenance=p) has returned and the caller
\* keeps uv_a; then uv_b = hdf5_to_uvx(fn_b, ...), with the same dict p or
\* with none.  uv_a.provenance is the dict the first call was given (the
\* UVX is built with provenance=provenance, no copy), so provenance.update
\* in the second call writes into uv_a too when both calls share p
Hdf5ToUvxNextFile ==
    /\ ret.op = "hdf5_to_uvx"
    /\ ret.outcome = "ok"
    /\ held = NoHeld
    /\ \E from_platform_yaml \in BOOLEAN, pass \in BOOLEAN :
          \E got \in {hdf5_to_uvx(NextFile(raw), env, from_platform_yaml, NoneArg,
                                  IF pass THEN DictArg(caller) ELSE NoneArg,
                                  ret.load_data)} :
              /\ ret' = [op |-> "hdf5_to_uvx", outcome |-> got.outcome, md |-> got.md,
                         log |-> got.log, uvx |-> got.uvx, flags |-> got.flags,
                         load_data |-> ret.load_data, provenance_given |-> pass]
              /\ caller' = IF pass THEN got.provenance ELSE caller
              /\ held' = [file |-> raw.name, md |-> ret.md,
                          provenance_given |-> ret.provenance_given,
                          uvx |-> IF ret.provenance_given /\ pass
                                  THEN [ret.uvx EXCEPT !.provenance = got.provenance]
                                  ELSE ret.uvx]
    /\ raw' = NextFile(raw)
    /\ UNCHANGED env
    /\ UNCHANGED codec_vars
    /\ UNCHANGED <<uvd, vis, batch>>

NextLoader ==
    GetHdf5Metadata \/ LoadObservationMetadata \/ Hdf5ToUvx \/ Hdf5ToUvxNextFile

SpecLoader == InitLoader /\ [][NextLoader]_vars


(***************************************************************************)
(* Claims about the loader and the builder (checked under SpecLoader).     *)
(***************************************************************************)
PayloadAccesses ==
    {"shape:correlation_matrix/data", "read:correlation_matrix/data",
     "read:sample_timestamps/data"}

Called(op) == ret.op = op /\ ret.outcome = "ok"

\* the metadata hdf5_to_uvx recorded in the model it returned
InputMetadata == ret.uvx.provenance.input_metadata

\* C5: when the root attribute set of the raw container lacks a required
\* key, metadata loading ends in the missing-metadata error, returns no
\* metadata, and neither the correlation_matrix payload nor the
\* sample_timestamps series was accessed before the error.
C5_MissingMetadataError ==
    (ret.op # "none" /\ expected_keys \ DOMAIN raw.root # {}) =>
        /\ ret.outcome = "MissingMetadata"
        /\ ret.md = EmptyDict
        /\ \A i \in DOMAIN ret.log : ret.log[i] \notin PayloadAccesses

\* C5 witness: metadata of a container without n_baselines was asked for.
C5_Witness ==
    /\ ret.op = "get_hdf5_metadata"
    /\ "n_baselines" \notin DOMAIN raw.root
    /\ ret.outcome = "MissingMetadata"

\* C6: (the claim as stated) in the merged metadata ts_start and channel_id
\* are the raw container's, also when the station YAML defines them, and a
\* configuration key present in both is the YAML's.
C6_RawPrecedence ==
    Called("load_observation_metadata") =>
        /\ ret.md.ts_start = raw.sample_timestamps[1][1]
        /\ ret.md.channel_id = raw.root.channel_id
        /\ \A k \in (DOMAIN env.yaml \cap DOMAIN raw.root) \ {"ts_start", "channel_id"} :
              ret.md[k] = env.yaml[k]

\* C7: (the claim as stated) the ts_start returned by get_hdf5_metadata is
\* the first recorded sample of sample_timestamps/data, whatever the root
\* attribute holds, and the time axis built by hdf5_to_uvx starts from that
\* value (its first entry is that value plus tsamp / 2).
C7_StartTimeOverride ==
    /\ Called("get_hdf5_metadata") => ret.md.ts_start = raw.sample_timestamps[1][1]
    /\ Called("hdf5_to_uvx") =>
          ret.uvx.timestamps.unix_x2[1] = 2 * raw.sample_timestamps[1][1] + ret.md.tsamp

\* C8: the time axis has n_blocks * n_samples entries, entry i is
\* ts_start + i * tsamp + tsamp / 2 (doubled here), a single integration
\* gives [ts_start + tsamp / 2], and neighbours differ by tsamp.
C8_TimeAxis ==
    Called("hdf5_to_uvx") =>
        LET t  == ret.uvx.timestamps.unix_x2
            n  == raw.root.n_blocks * raw.root.n_samples
            md == InputMetadata
        IN  /\ Len(t) = n
            /\ \A i \in 0..(n - 1) : t[i + 1] = 2 * md.ts_start + 2 * i * md.tsamp + md.tsamp
            /\ n = 1 => t = <<2 * md.ts_start + md.tsamp>>
            /\ \A i \in 1..(n - 1) : t[i + 1] - t[i] = 2 * md.tsamp

\* C8 witness: a model of four integrations with an odd sample period.
C8_Witness ==
    /\ Called("hdf5_to_uvx")
    /\ Len(ret.uvx.timestamps.unix_x2) = 4
    /\ InputMetadata.tsamp = 3

\* C9: the frequency axis has n_chans entries, channel j is
\* (j + 1) * channel_spacing * channel_id, and n_chans = 1 with spacing
\* 1000000 and channel 10 gives [10000000].
C9_FrequencyAxis ==
    Called("hdf5_to_uvx") =>
        LET f  == ret.uvx.data.frequency.values
            n  == raw.root.n_chans
            md == InputMetadata
        IN  /\ Len(f) = n
            /\ \A j \in 0..(n - 1) : f[j + 1] = (j + 1) * md.channel_spacing * md.channel_id
            /\ (n = 1 /\ md.channel_spacing = 1000000 /\ md.channel_id = 10)
                  => f = <<10000000>>

\* C9 witness: one channel, spacing 1000000, channel 10.
C9_Witness ==
    /\ Called("hdf5_to_uvx")
    /\ raw.root.n_chans = 1
    /\ InputMetadata.channel_spacing = 1000000
    /\ InputMetadata.channel_id = 10
    /\ ret.uvx.data.frequency.values = <<10000000>>

\* the canonical tensor of the observation the raw container recorded
CanonicalValues ==
    Payload("default", raw.data.shape[1], raw.data.shape[2], raw.root.n_antennas).values

\* C10: with load_data, hdf5_to_uvx hands conjugate_hdf5 and transpose_hdf5
\* to the builder unchanged; (conj, transpose) = (False, False) on the
\* default-order payload and (True, True) on the swapped-order payload of
\* the same observation give the same canonical tensor, and the swapped
\* handling conjugates every sample, exchanging the two cross-polarization
\* positions and keeping the two same-polarization positions.
C10_ConjTransposeEquivalence ==
    (Called("hdf5_to_uvx") /\ ret.load_data) =>
        LET out == ret.uvx.data.arr.values
            cj  == env.yaml.conjugate_hdf5
            tr  == env.yaml.transpose_hdf5
        IN  /\ ret.flags = [conj |-> cj, transpose |-> tr]
            /\ (raw.order = "default" /\ ~cj /\ ~tr) => out = CanonicalValues
            /\ (raw.order = "swapped" /\ cj /\ tr) =>
                  /\ out = CanonicalValues
                  /\ \A ix \in DOMAIN out :
                        out[ix] = Conj(raw.data.values[
                                    <<ix[1], ix[2], ix[3], SwapCross(ix[4])>>])

\* C10 witness: a swapped-order payload of two antennas was built with
\* conj and transpose set, and the tensor differs from the payload.
C10_Witness ==
    /\ Called("hdf5_to_uvx")
    /\ ret.load_data
    /\ raw.order = "swapped"
    /\ ret.flags = [conj |-> TRUE, transpose |-> TRUE]
    /\ raw.root.n_antennas = 2
    /\ ret.uvx.data.arr.values # raw.data.values
    /\ ret.uvx.data.arr.values[<<1, 1, 2, 2>>] # ret.uvx.data.arr.values[<<1, 1, 2, 3>>]

\* the payload shape the counts in the root attributes imply
ImpliedShape(root) ==
    <<root.n_blocks * root.n_samples, root.n_chans, root.n_baselines, root.n_stokes>>

\* C11: (the claim as stated) every model returned by hdf5_to_uvx has a
\* tensor of shape (len(time), len(frequency), len(baseline),
\* len(polarization)) with len(time) = n_blocks * n_samples and
\* len(frequency) = n_chans, its baseline axis is as long as the configured
\* n_baselines, which is n_antennas * (n_antennas + 1) / 2 or n_antennas^2,
\* and a payload whose shape disagrees with these counts yields no model.
C11_AxisConsistency ==
    /\ Called("hdf5_to_uvx") =>
          LET shape == ret.uvx.data.arr.shape
              root  == raw.root
          IN  /\ shape[1] = Len(ret.uvx.data.time.values_x2)
              /\ shape[2] = Len(ret.uvx.data.frequency.values)
              /\ Len(ret.uvx.data.time.values_x2) = root.n_blocks * root.n_samples
              /\ Len(ret.uvx.data.frequency.values) = root.n_chans
              /\ shape[3] = root.n_baselines
              /\ root.n_baselines \in {(root.n_antennas * (root.n_antennas + 1)) \div 2,
                                       root.n_antennas * root.n_antennas}
              /\ shape[4] = 4
    /\ (ret.op = "hdf5_to_uvx" /\ expected_keys \subseteq DOMAIN raw.root
                               /\ raw.data.shape # ImpliedShape(raw.root))
          => ret.outcome # "ok"
\* every access to the raw container that a log can hold
RawAccesses ==
    PayloadAccesses \cup {"open:raw", "attrs:root", "attrs:observation_info", "close:raw"}

\* the path the call's yaml_config / telescope_name lead to
ConfigPath ==
    IF env.yaml_config # NonePath THEN env.yaml_config
    ELSE get_resource_path(<<"config", env.telescope_name>>)

\* no configuration can be found for the call
ConfigUnresolvable ==
    \/ env.yaml_config = NonePath /\ env.telescope_name = "None"
    \/ ConfigPath \notin env.files

\* C16: (the claim as stated) when the named telescope configuration does
\* not exist, or neither a YAML path nor a telescope name is given, loading
\* ends in the configuration-resolution error and the raw container was
\* neither opened nor read before it; resolving a bundled configuration that
\* does not exist returns no path.
C16_ConfigResolutionFirst ==
    (ret.op \in {"load_observation_metadata", "hdf5_to_uvx"} /\ ConfigUnresolvable) =>
        /\ ret.outcome \in {"RuntimeError", "FileNotFoundError"}
        /\ \A i \in DOMAIN ret.log : ret.log[i] \notin RawAccesses
        /\ (env.yaml_config = NonePath /\ env.telescope_name # "None")
              => get_config_path(env.telescope_name).outcome # "ok"

ObsInfoKeys == {"description", "firmware_version", "software_version", "station_config"}

\* C17: (the claim as stated) when the raw container has no observation_info
\* group, or has it without one of its four attributes, hdf5_to_uvx still
\* returns a model, raises no error, and the model's provenance has no
\* station_config entry; when all four attributes are present the entry
\* holds the four values.
C17_OptionalObservationInfo ==
    (/\ ret.op = "hdf5_to_uvx"
     /\ expected_keys \subseteq DOMAIN raw.root
     /\ ConfigPath \in env.files \ env.malformed) =>
        /\ ret.outcome = "ok"
        /\ ~(raw.has_observation_info /\ ObsInfoKeys \subseteq DOMAIN raw.observation_info)
              => "station_config" \notin DOMAIN ret.uvx.provenance
        /\ (raw.has_observation_info /\ ObsInfoKeys \subseteq DOMAIN raw.observation_info)
              => /\ "station_config" \in DOMAIN ret.uvx.provenance
                 /\ ret.uvx.provenance.station_config =
                       [observation_description |-> raw.observation_info.description,
                        tpm_firmware_version    |-> raw.observation_info.firmware_version,
                        daq_software_version    |-> raw.observation_info.software_version,
                        station_config_yaml     |-> raw.observation_info.station_config]

\* the handles a log leaves open: opened more often than closed
OpenHandles(log) ==
    {h \in {<<"open:raw", "close:raw">>, <<"open:yaml", "close:yaml">>} :
        Cardinality({i \in DOMAIN log : log[i] = h[1]})
            > Cardinality({i \in DOMAIN log : log[i] = h[2]})}

\* C18: (the claim as stated) every file handle a call opened (raw
\* container, YAML resource) is closed by the time the call returns or
\* propagates an exception.
C18_ScopedHandles ==
    ret.op # "none" => OpenHandles(ret.log) = {}

\* C20: (the claim as stated) a raw container that has every required root
\* attribute and a payload but no sample_timestamps/data series is loaded
\* without error by get_hdf5_metadata, and the ts_start returned is the root
\* ts_start attribute.
C20_OptionalTimestamps ==
    (/\ ret.op = "get_hdf5_metadata"
     /\ expected_keys \subseteq DOMAIN raw.root
     /\ ~raw.has_timestamps) =>
        /\ ret.outcome = "ok"
        /\ ret.md.ts_start = raw.root.ts_start

\* the model of the earlier file records that file: its input_files name it
\* and its input_metadata is the metadata that call loaded
HeldRecordsItsFile ==
    held # NoHeld =>
        /\ held.uvx.provenance.input_files.data_filename = Path(<<"cwd">>, held.file)
        /\ held.uvx.provenance.input_metadata = held.md

\* C21: (the claim as stated) hdf5_to_uvx leaves the provenance dictionary
\* the caller passed in unchanged, so that after converting file A and then
\* file B with the same provenance dictionary, the model returned for A
\* still records A's input_files and input_metadata, not B's.
C21_NoCrossFileState ==
    /\ [][caller' = caller]_vars
    /\ []HeldRecordsItsFile


(***************************************************************************)
(* uvw_utils: the geometry engine (spec 4.4), in integers.                 *)
(***************************************************************************)
\* the local position the antenna-locations resource lists for antenna a
AntennaPosition(a) == <<10 * a, 3 * a, a>>

\* a separation projected into the (u, v, w) frame of time step t: w along
\* the line of sight, u and v turning with the hour angle
ProjectUVW(t, d) == IF t % 2 = 1 THEN <<d[1], d[2], d[3]>> ELSE <<-d[2], d[1], d[3]>>

\* calc_uvw(uv): UVW[time, baseline], position(ant2) - position(ant1)
calc_uvw(uvx) ==
    LET bl == BaselinePairs(uvx.provenance.input_metadata.n_antennas)
        nt == Len(uvx.timestamps.unix_x2)
    IN  [shape  |-> <<nt, Len(bl), 3>>,
         values |-> [ix \in (1..nt) \X (1..Len(bl)) |->
                        LET p1 == AntennaPosition(bl[ix[2]][1])
                            p2 == AntennaPosition(bl[ix[2]][2])
                        IN  ProjectUVW(ix[1], <<p2[1] - p1[1], p2[2] - p1[2],
                                                p2[3] - p1[3]>>)]]

\* exp(-2 pi i * f/c * w) with f/c * w counted in quarter turns: 1 at w = 0
PhaseFactor(f, w) ==
    LET k == ((f \div 2000000) * w) % 4
    IN  IF k = 0 THEN <<1, 0>> ELSE IF k = 1 THEN <<0, -1>>
        ELSE IF k = 2 THEN <<-1, 0>> ELSE <<0, 1>>

\* calc_zenith_tracking_phase_corr(uv): the factor of every
\* (time, frequency, baseline)
calc_zenith_tracking_phase_corr(uvx) ==
    LET uvw == calc_uvw(uvx)
        f   == uvx.data.frequency.values
    IN  [ix \in (1..uvw.shape[1]) \X (1..Len(f)) \X (1..uvw.shape[2]) |->
            PhaseFactor(f[ix[2]], uvw.values[<<ix[1], ix[3]>>][3])]

(***************************************************************************)
(* to_sdp: hdf5_to_sdp_vis.                                                *)
(* An export call returns [outcome, v]: v is the Visibility constructed.   *)
(***************************************************************************)
\* scan and execution-block identifiers: an int or a str
IntVal(n) == [type |-> "int", int |-> n, str |-> ""]
StrVal(x) == [type |-> "str", int |-> 0, str |-> x]

NoVisibility == [source |-> "None"]

\* uvw *= -1
NegUVW(uvw) ==
    [uvw EXCEPT !.values = [ix \in DOMAIN uvw.values |->
        <<-uvw.values[ix][1], -uvw.values[ix][2], -uvw.values[ix][3]>>]]

\* uv.data.transpose('time', 'baseline', 'frequency', 'polarization').values
TransposeTBFP(arr) ==
    [dtype  |-> arr.dtype,
     shape  |-> <<arr.shape[1], arr.shape[3], arr.shape[2], arr.shape[4]>>,
     values |-> [ix \in (1..arr.shape[1]) \X (1..arr.shape[3]) \X (1..arr.shape[2])
                        \X (1..arr.shape[4]) |->
                    arr.values[<<ix[1], ix[3], ix[2], ix[4]>>]]]

\* a faulty export: the correction multiplied in whatever the toggle says
ApplyPhasing_always(vis_data, phs_corr, apply_phasing) ==
    [vis_data EXCEPT !.values = [ix \in DOMAIN vis_data.values |->
        Mul(vis_data.values[ix], phs_corr[<<ix[1], ix[3], ix[2]>>])]]

\* if apply_phasing: vis_data *= phs_corr, the factor of (time, frequency,
\* baseline) broadcast over the polarizations
ApplyPhasing(vis_data, phs_corr, apply_phasing) ==
    IF apply_phasing
    THEN [vis_data EXCEPT !.values = [ix \in DOMAIN vis_data.values |->
            Mul(vis_data.values[ix], phs_corr[<<ix[1], ix[3], ix[2]>>])]]
    ELSE vis_data

\* uv = hdf5_to_uvx(fn_raw, yaml_config=yaml_config,
\*                  telescope_name=telescope_name, conj=conj): the caller's
\* conj takes the place of the configured conjugate_hdf5
LoadForExport(r, e, conj) ==
    hdf5_to_uvx(r, [e EXCEPT !.yaml.conjugate_hdf5 = conj], FALSE, NoneArg, NoneArg, TRUE)

\* hdf5_to_sdp_vis from its second statement on: got is what the loader
\* returned
SdpVisOf(got, scan_id, scan_intent, execblock_id, flip_uvw, apply_phasing) ==
        IF got.outcome # "ok" THEN [outcome |-> got.outcome, v |-> NoVisibility]
        ELSE
        LET uvx == got.uvx
            md  == uvx.provenance.input_metadata
            t   == uvx.timestamps.unix_x2
            fc  == uvx.data.frequency.values
            uvw0 == calc_uvw(uvx)
            uvw  == IF flip_uvw THEN NegUVW(uvw0) ELSE uvw0
            vis_data == TransposeTBFP(uvx.data.arr)
            phs_corr == calc_zenith_tracking_phase_corr(uvx)
            vis_out  == ApplyPhasing(vis_data, phs_corr, apply_phasing)
        IN  [outcome |-> "ok",
             v |-> [uvw |-> uvw,
                    time |-> [scale |-> "mjd * 86400", unix_x2 |-> t],
                    frequency |-> fc,
                    vis |-> vis_out,
                    weight |-> [shape |-> vis_out.shape, fill |-> 1],
                    baselines |-> BaselinePairs(md.n_antennas),
                    flags |-> [shape |-> vis_out.shape, fill |-> 0],
                    integration_time |-> [i \in DOMAIN t |-> md.tsamp],
                    channel_bandwidth |->
                        [j \in DOMAIN fc |-> uvx.data.frequency.attrs.channel_bandwidth],
                    source |-> "Zenith_at_mjd",
                    source_epoch_x2 |-> t[1],
                    scan_id |-> scan_id,
                    scan_intent |-> scan_intent,
                    execblock_id |-> execblock_id,
                    phasecentre |-> uvx.phase_center,
                    configuration |-> md.telescope_name]]

\* hdf5_to_sdp_vis(fn_raw, yaml_config, telescope_name, conj, scan_id,
\*                 scan_intent, execblock_id, flip_uvw, apply_phasing): the
\* model is loaded once, then exported (phasing is apply_phasing)
hdf5_to_sdp_vis(r, e, conj, scan_id, scan_intent, execblock_id, flip_uvw, phasing) ==
    CHOOSE out \in {SdpVisOf(got, scan_id, scan_intent, execblock_id, flip_uvw, phasing) :
                        got \in {LoadForExport(r, e, conj)}} : TRUE

(***************************************************************************)
(* sdp_uv: the direct adapter hdf5_to_sdp_vis(fn_raw, yaml_raw), which     *)
(* bypasses the canonical model.                                           *)
(***************************************************************************)
\* np.arange(n_integrations) * tsamp + ts_start, in half ticks
LegacyTimeAxis(md) == [i \in 1..md.n_integrations |-> 2 * ((i - 1) * md.tsamp + md.ts_start)]

\* (np.arange(n_chans) + 1) * channel_spacing * channel_id
LegacyFreqAxis(md) ==
    [j \in 1..md.n_chans |-> ((j - 1) + 1) * md.channel_spacing * md.channel_id]

\* create_visibility(...) computes the UVW of its configuration at its times
LegacyUVW(md, t) ==
    LET bl == BaselinePairs(md.n_antennas)
    IN  [shape  |-> <<Len(t), Len(bl), 3>>,
         values |-> [ix \in (1..Len(t)) \X (1..Len(bl)) |->
                        LET p1 == AntennaPosition(bl[ix[2]][1])
                            p2 == AntennaPosition(bl[ix[2]][2])
                        IN  ProjectUVW(ix[1], <<p2[1] - p1[1], p2[2] - p1[2],
                                                p2[3] - p1[3]>>)]]

legacy_hdf5_to_sdp_vis(r, e) ==
    LET got == load_observation_metadata(r, e, e.yaml_config, "None")
        md  == got.md
    IN  IF got.outcome # "ok" THEN [outcome |-> got.outcome, v |-> NoVisibility]
        ELSE
        LET t   == LegacyTimeAxis(md)
            f_c == LegacyFreqAxis(md)
            d   == TransposeTBFP(r.data)
        IN  [outcome |-> "ok",
             v |-> [uvw |-> LegacyUVW(md, t),
                    time |-> [scale |-> "hour angle", unix_x2 |-> t],
                    frequency |-> f_c,
                    vis |-> d,
                    weight |-> [shape |-> d.shape, fill |-> 1],
                    baselines |-> BaselinePairs(md.n_antennas),
                    integration_time |-> [i \in DOMAIN t |-> md.tsamp],
                    channel_bandwidth |-> [j \in DOMAIN f_c |-> md.channel_width],
                    source |-> "Zenith_at_mjd",
                    source_epoch_x2 |-> t[1],
                    scan_id |-> IntVal(0),
                    scan_intent |-> "None",
                    execblock_id |-> IntVal(0),
                    configuration |-> md.telescope_name]]

(***************************************************************************)
(* to_sdp: uvdata_to_sdp_vis.  The UVData object keeps its baseline-time   *)
(* axis flat: entry (t - 1) * Nbls + b is baseline b of time step t.       *)
(***************************************************************************)
\* the polarization a position of the Visibility takes from data_array:
\* vis_data[..., [0, 2, 3, 1]], counted from 1
PolRemap(p) == IF p = 1 THEN 1 ELSE IF p = 2 THEN 3 ELSE IF p = 3 THEN 4 ELSE 2

\* uv.uvw_array.reshape((uv.Ntimes, uv.Nbls, 3))
ReshapeUVW(u) ==
    [shape  |-> <<u.Ntimes, u.Nbls, 3>>,
     values |-> [ix \in (1..u.Ntimes) \X (1..u.Nbls) |->
                    u.uvw_array[(ix[1] - 1) * u.Nbls + ix[2]]]]

\* the flat array a (Ntimes, Nbls, 3) view writes through to
FlatUVW(u, uvw) ==
    [k \in 1..(u.Ntimes * u.Nbls) |->
        uvw.values[<<((k - 1) \div u.Nbls) + 1, ((k - 1) % u.Nbls) + 1>>]]

\* a faulty check: a second frequency window is let through
TooManyWindows_lenient(freq_array) == Len(freq_array) > 2

\* len(uv.freq_array) > 1
TooManyWindows(freq_array) == Len(freq_array) > 1

\* uvdata_to_sdp_vis(uv, scan_id, scan_intent, execblock_id, conj, flip_uvw):
\* [outcome, v, uv]; uv is the caller's object as the call leaves it (the
\* reshape of a C-contiguous uvw_array is a view, and uvw *= -1 writes
\* through it)
uvdata_to_sdp_vis(u, scan_id, scan_intent, execblock_id, conj, flip_uvw) ==
    LET f_c == u.freq_array[1]
    IN  IF TooManyWindows(u.freq_array)
        THEN [outcome |-> "NotImplementedError", v |-> NoVisibility, uv |-> u]
        ELSE
        LET uvw0 == ReshapeUVW(u)
            uvw  == IF flip_uvw THEN NegUVW(uvw0) ELSE uvw0
            uv1  == IF flip_uvw /\ u.uvw_c_contiguous
                    THEN [u EXCEPT !.uvw_array = FlatUVW(u, uvw)] ELSE u
            t    == [i \in 1..u.Ntimes |-> u.time_array[(i - 1) * u.Nbls + 1]]
            size == u.data_array.shape[1] * u.data_array.shape[2]
                        * u.data_array.shape[3] * u.data_array.shape[4]
        IN  IF size # u.Ntimes * u.Nbls * 1 * 4
            THEN [outcome |-> "ValueError", v |-> NoVisibility, uv |-> uv1]
            ELSE
            LET vis_data ==
                    [dtype  |-> u.data_array.dtype,
                     shape  |-> <<u.Ntimes, u.Nbls, 1, 4>>,
                     values |-> [ix \in (1..u.Ntimes) \X (1..u.Nbls) \X {1} \X (1..4) |->
                        LET x == u.data_array.values[
                                    <<(ix[1] - 1) * u.Nbls + ix[2], 1, 1, PolRemap(ix[4])>>]
                        IN  IF conj THEN Conj(x) ELSE x]]
            IN  [outcome |-> "ok",
                 v |-> [uvw |-> uvw,
                        time |-> [scale |-> "mjd * 86400", jd |-> t],
                        frequency |-> f_c,
                        vis |-> vis_data,
                        weight |-> [shape |-> vis_data.shape, fill |-> 1],
                        baselines |-> [b \in 1..u.Nbls |->
                                          <<u.ant_1_array[b], u.ant_2_array[b]>>],
                        flags |-> [shape |-> vis_data.shape, fill |-> 0],
                        channel_bandwidth |-> [j \in DOMAIN f_c |-> u.channel_width],
                        source |-> u.cat_name,
                        scan_id |-> scan_id,
                        scan_intent |-> scan_intent,
                        execblock_id |-> execblock_id,
                        configuration |-> u.telescope_name],
                 uv |-> uv1]

(***************************************************************************)
(* The exporters as a state machine: calls on the files on disk and on the *)
(* UVData object the caller holds.                                         *)
(***************************************************************************)
MaxUvTimes == 2     \* Ntimes of a UVData object
MaxUvFreqs == 2     \* Nfreqs of a UVData object
MaxWindows == 2     \* frequency windows (rows of freq_array) of a UVData object

\* a UVData object of nant antennas; data_array is (Nblts, 1, Nfreqs, Npols)
\* with the polarizations in the order XX, YY, XY, YX
MakeUVData(nt, nant, nfreq, nspw, contiguous) ==
    LET bl   == BaselinePairs(nant)
        nbl  == Len(bl)
        T(k) == ((k - 1) \div nbl) + 1
        B(k) == ((k - 1) % nbl) + 1
    IN  [telescope_name |-> "AAVS3",
         cat_name   |-> "zenith",
         Ntimes     |-> nt,
         Nbls       |-> nbl,
         Nfreqs     |-> nfreq,
         time_array |-> [k \in 1..(nt * nbl) |-> 2460000 + T(k)],
         freq_array |-> [w \in 1..nspw |-> [j \in 1..nfreq |-> 50000000 * w + 1000000 * j]],
         channel_width |-> 925926,
         ant_1_array |-> [k \in 1..(nt * nbl) |-> bl[B(k)][1]],
         ant_2_array |-> [k \in 1..(nt * nbl) |-> bl[B(k)][2]],
         uvw_array  |-> [k \in 1..(nt * nbl) |->
                            LET p1 == AntennaPosition(bl[B(k)][1])
                                p2 == AntennaPosition(bl[B(k)][2])
                            IN  ProjectUVW(T(k), <<p2[1] - p1[1], p2[2] - p1[2],
                                                   p2[3] - p1[3]>>)],
         uvw_c_contiguous |-> contiguous,
         data_array |-> [dtype  |-> "c8",
                         shape  |-> <<nt * nbl, 1, nfreq, 4>>,
                         values |-> [ix \in (1..(nt * nbl)) \X {1} \X (1..nfreq) \X (1..4) |->
                                        VisSample(0, T(ix[1]), ix[3], B(ix[1]), ix[4])]]]

UVDataInputs ==
    {MakeUVData(nt, nant, nfreq, nspw, contiguous) :
        nt \in 1..MaxUvTimes, nant \in 1..MaxAnts, nfreq \in 1..MaxUvFreqs,
        nspw \in 1..MaxWindows, contiguous \in BOOLEAN}

\* the raw containers and configurations handed to the hdf5 adapters
ExportRawInputs ==
    {<<MakeRaw(nb, 1, nc, nant, 10, 100, 100, "default", {}, TRUE, "absent"),
       Env(DefaultYaml, ObsYaml, "None")>> :
        nb \in 1..MaxBlocks, nc \in 1..MaxChans, nant \in 1..MaxAnts}
    \cup
    {<<MakeRaw(1, 1, 1, 1, 10, 100, 100, "default", {"n_baselines"}, TRUE, "absent"),
       Env(DefaultYaml, ObsYaml, "None")>>}

\* the scan and execution-block identifiers a caller has for its export
IdChoices ==
    {<<IntVal(0), StrVal("")>>, <<IntVal(7), StrVal("eb-aavs-20231219-00001")>>}

InitExport ==
    /\ \/ /\ \E in \in ExportRawInputs : raw = in[1] /\ env = in[2]
          /\ uvd = NoUVData
       \/ /\ raw = NoRaw
          /\ env = NoEnv
          /\ uvd \in UVDataInputs
    /\ vis = NoExport
    /\ caller = EmptyDict
    /\ ret = NoCall
    /\ held = NoHeld
    /\ uv = NoUV
    /\ h5 = NoFile
    /\ uv_read = NoUV
    /\ codec_pc = "idle"
    /\ batch = NoBatch

\* v = to_sdp.hdf5_to_sdp_vis(fn_raw, yaml_config, telescope_name, conj,
\*                            scan_id, scan_intent, execblock_id, flip_uvw,
\*                            apply_phasing)
Hdf5ToSdpVis ==
    /\ raw # NoRaw
    /\ \E conj \in BOOLEAN, flip_uvw \in BOOLEAN, apply_phasing \in BOOLEAN,
          id \in IdChoices :
          LET got == hdf5_to_sdp_vis(raw, env, conj, id[1], "", id[2], flip_uvw,
                                     apply_phasing)
          IN  vis' = [op |-> "hdf5_to_sdp_vis", outcome |-> got.outcome, v |-> got.v,
                      args |-> [conj |-> conj, flip_uvw |-> flip_uvw,
                                apply_phasing |-> apply_phasing,
                                scan_id |-> id[1], execblock_id |-> id[2]]]
    /\ UNCHANGED <<raw, env, caller, ret, held, uvd, batch>>
    /\ UNCHANGED codec_vars

\* v = sdp_uv.hdf5_to_sdp_vis(fn_raw, yaml_raw): the caller has identifiers
\* for its export, and the adapter has no argument to take them
LegacyHdf5ToSdpVis ==
    /\ raw # NoRaw
    /\ \E id \in IdChoices :
          LET got == legacy_hdf5_to_sdp_vis(raw, env)
          IN  vis' = [op |-> "sdp_uv.hdf5_to_sdp_vis", outcome |-> got.outcome,
                      v |-> got.v,
                      args |-> [scan_id |-> id[1], execblock_id |-> id[2]]]
    /\ UNCHANGED <<raw, env, caller, ret, held, uvd, batch>>
    /\ UNCHANGED codec_vars

\* v = uvdata_to_sdp_vis(uv, scan_id, scan_intent, execblock_id, conj, flip_uvw)
UvdataToSdpVis ==
    /\ uvd # NoUVData
    /\ \E conj \in BOOLEAN, flip_uvw \in BOOLEAN, id \in IdChoices :
          LET got == uvdata_to_sdp_vis(uvd, id[1], "", id[2], conj, flip_uvw)
          IN  /\ vis' = [op |-> "uvdata_to_sdp_vis", outcome |-> got.outcome,
                         v |-> got.v,
                         args |-> [conj |-> conj, flip_uvw |-> flip_uvw,
                                   scan_id |-> id[1], execblock_id |-> id[2]]]
              /\ uvd' = got.uv
    /\ UNCHANGED <<raw, env, caller, ret, held, batch>>
    /\ UNCHANGED codec_vars

NextExport == Hdf5ToSdpVis \/ LegacyHdf5ToSdpVis \/ UvdataToSdpVis

SpecExport == InitExport /\ [][NextExport]_vars

(***************************************************************************)
(* Claims about the exporters (checked under SpecExport).                  *)
(***************************************************************************)
Exported(op) == vis.op = op /\ vis.outcome = "ok"

\* C12: in hdf5_to_sdp_vis with apply_phasing the exported visibility at
\* (time, baseline, frequency, polarization) is the canonical sample at
\* (time, frequency, baseline, polarization) multiplied once by the
\* zenith-tracking phase factor of that (time, baseline, frequency); without
\* apply_phasing it is the canonical sample unmodified.
C12_PhasingOnce ==
    Exported("hdf5_to_sdp_vis") =>
        \A canon \in {LoadForExport(raw, env, vis.args.conj).uvx} :
        \A phs \in {calc_zenith_tracking_phase_corr(canon)} :
            LET shape == canon.data.arr.shape
                out   == vis.v.vis
            IN  /\ out.shape = <<shape[1], shape[3], shape[2], shape[4]>>
                /\ \A t \in 1..shape[1], b \in 1..shape[3], f \in 1..shape[2],
                      p \in 1..shape[4] :
                      out.values[<<t, b, f, p>>] =
                          IF vis.args.apply_phasing
                          THEN Mul(canon.data.arr.values[<<t, f, b, p>>], phs[<<t, f, b>>])
                          ELSE canon.data.arr.values[<<t, f, b, p>>]

\* C12 witness: an export with apply_phasing of two channels and two
\* antennas, in which a phase factor is a quarter turn (its square is not
\* 1) and moves a sample.
C12_Witness ==
    /\ Exported("hdf5_to_sdp_vis")
    /\ vis.args.apply_phasing
    /\ vis.v.vis.shape[2] = 3
    /\ vis.v.vis.shape[3] = 2
    /\ PhaseFactor(vis.v.frequency[1], vis.v.uvw.values[<<1, 2>>][3]) \in {<<0, 1>>, <<0, -1>>}
    /\ \E got \in {LoadForExport(raw, env, vis.args.conj)} :
          vis.v.vis.values[<<1, 2, 1, 2>>] # got.uvx.data.arr.values[<<1, 1, 2, 2>>]

\* C13: (the claim as stated) for each exporter that takes flip_uvw and every
\* input, the UVW exported with flip_uvw is the negation of the UVW exported
\* without it for that same input, and without flip_uvw the exported UVW is
\* the engine's UVW unchanged.
C13_FlipUvwToggle ==
    /\ [](Exported("hdf5_to_sdp_vis") =>
            \A canon \in {LoadForExport(raw, env, vis.args.conj).uvx} :
                vis.v.uvw = IF vis.args.flip_uvw THEN NegUVW(calc_uvw(canon))
                            ELSE calc_uvw(canon))
    /\ []((Exported("uvdata_to_sdp_vis") /\ ~vis.args.flip_uvw) =>
            vis.v.uvw = ReshapeUVW(uvd))
    /\ [][(/\ Exported("uvdata_to_sdp_vis")
           /\ vis'.op = "uvdata_to_sdp_vis"
           /\ vis'.outcome = "ok"
           /\ vis.args.flip_uvw
           /\ ~vis'.args.flip_uvw)
          => vis'.v.uvw = NegUVW(vis.v.uvw)]_vars

\* C14: (the claim as stated) every adapter passes the caller's scan
\* identifier and execution-block identifier through unchanged and takes
\* the UVW-sign and phase-tracking toggles.
C14_IdentifiersPassThrough ==
    (vis.op # "none" /\ vis.outcome = "ok") =>
        /\ vis.v.scan_id = vis.args.scan_id
        /\ vis.v.execblock_id = vis.args.execblock_id
        /\ {"flip_uvw", "apply_phasing"} \subseteq DOMAIN vis.args

\* C15: for a dataset with more than one frequency window uvdata_to_sdp_vis
\* ends in the unsupported-layout error and returns no Visibility; for a
\* dataset with exactly one window it does not raise this error.
C15_MultiWindowRejected ==
    vis.op = "uvdata_to_sdp_vis" =>
        /\ Len(uvd.freq_array) > 1 =>
              /\ vis.outcome = "NotImplementedError"
              /\ vis.v = NoVisibility
        /\ Len(uvd.freq_array) = 1 => vis.outcome # "NotImplementedError"

\* C15 witness: a dataset of two windows was handed to uvdata_to_sdp_vis.
C15_Witness ==
    /\ vis.op = "uvdata_to_sdp_vis"
    /\ Len(uvd.freq_array) = 2
    /\ vis.outcome = "NotImplementedError"

\* a call of uvdata_to_sdp_vis returned a Visibility in this step
UvdataReturns == vis'.op = "uvdata_to_sdp_vis" /\ vis'.outcome = "ok"

\* the input's UVW array and visibility array are as before the call
SourceKept ==
    [][UvdataReturns =>
          /\ uvd'.uvw_array = uvd.uvw_array
          /\ uvd'.data_array = uvd.data_array]_vars

\* a call repeated with the same arguments on the same input returns the
\* UVW the call before it returned
RepeatedCallsAgree ==
    [][(Exported("uvdata_to_sdp_vis") /\ UvdataReturns /\ vis'.args = vis.args)
          => vis'.v.uvw = vis.v.uvw]_vars

\* C22: (the claim as stated) for every input dataset and every combination
\* of flip_uvw and conj, the input's UVW array and visibility array after
\* uvdata_to_sdp_vis returns equal their values before the call, so any
\* number of repeated calls with the same arguments on the same input return
\* equal UVW.
C22_SourceNotMutated == SourceKept /\ RepeatedCallsAgree

\* the direct adapter's channel centre frequencies are the canonical path's:
\* channel j (from 0) is (j + 1) * channel_spacing * channel_id
LegacyFrequencyParity ==
    Exported("sdp_uv.hdf5_to_sdp_vis") =>
        \A canon \in {hdf5_to_uvx(raw, env, FALSE, NoneArg, NoneArg, TRUE)} :
            /\ canon.outcome = "ok"
            /\ vis.v.frequency = canon.uvx.data.frequency.values
            /\ \A j \in DOMAIN vis.v.frequency :
                  vis.v.frequency[j] =
                      ((j - 1) + 1) * canon.md.channel_spacing * canon.md.channel_id

\* the direct adapter's time samples are the canonical path's: sample i
\* (from 0) is ts_start + i * tsamp + tsamp / 2 (doubled here)
LegacyTimeParity ==
    Exported("sdp_uv.hdf5_to_sdp_vis") =>
        \A canon \in {hdf5_to_uvx(raw, env, FALSE, NoneArg, NoneArg, TRUE)} :
            /\ canon.outcome = "ok"
            /\ vis.v.time.unix_x2 = canon.uvx.timestamps.unix_x2
            /\ \A i \in DOMAIN vis.v.time.unix_x2 :
                  vis.v.time.unix_x2[i] =
                      2 * (canon.md.ts_start + (i - 1) * canon.md.tsamp) + canon.md.tsamp

\* C23: (the claim as stated) for the same raw file and station
\* configuration the direct adapter sdp_uv.hdf5_to_sdp_vis derives its time
\* samples and channel centre frequencies from the same instants and values
\* as hdf5_to_uvx: time sample i is ts_start + i * tsamp + tsamp / 2 and
\* channel j is (j + 1) * channel_spacing * channel_id in both paths.
C23_LegacyAxisParity == LegacyTimeParity /\ LegacyFrequencyParity

(***************************************************************************)
(* parallelize: run_in_parallel(task_list, n_workers), which hands the     *)
(* task list to joblib's Parallel and returns what it returns.  A task is  *)
(* the conversion of one file: it returns its result or raises.            *)
(***************************************************************************)
MaxTasks == 3       \* tasks in a task list
MaxWorkers == 2     \* n_workers

TaskLists ==
    UNION {[1..n -> {"returns", "raises"}] : n \in 1..MaxTasks}

InitBatch ==
    /\ \E task_list \in TaskLists, n_workers \in 1..MaxWorkers :
          batch = [pc |-> "called", task_list |-> task_list, n_workers |-> n_workers,
                   status |-> [i \in DOMAIN task_list |-> "pending"],
                   outcome |-> "none", results |-> <<>>]
    /\ raw = NoRaw
    /\ env = NoEnv
    /\ caller = EmptyDict
    /\ ret = NoCall
    /\ held = NoHeld
    /\ uvd = NoUVData
    /\ vis = NoExport
    /\ uv = NoUV
    /\ h5 = NoFile
    /\ uv_read = NoUV
    /\ codec_pc = "idle"

Running == {i \in DOMAIN batch.status : batch.status[i] = "running"}
Pending == {i \in DOMAIN batch.status : batch.status[i] = "pending"}
Failed == {i \in DOMAIN batch.status : batch.status[i] = "failed"}

BatchUnchanged ==
    /\ UNCHANGED <<raw, env, caller, ret, held, uvd, vis>>
    /\ UNCHANGED codec_vars

\* with joblib.parallel_backend(backend): Parallel(n_jobs=n_workers)(...)
EnterParallel ==
    /\ batch.pc = "called"
    /\ batch' = [batch EXCEPT !.pc = "running"]
    /\ BatchUnchanged

\* a free worker takes the next task of the list
Dispatch ==
    /\ batch.pc = "running"
    /\ Pending # {}
    /\ Cardinality(Running) < batch.n_workers
    /\ LET i == CHOOSE j \in Pending : \A k \in Pending : j <= k
       IN  batch' = [batch EXCEPT !.status[i] = "running"]
    /\ BatchUnchanged

\* a worker comes to the end of its task: the task returned or raised
Finish ==
    /\ batch.pc = "running"
    /\ \E i \in Running :
          batch' = [batch EXCEPT !.status[i] =
                        IF batch.task_list[i] = "returns" THEN "done" ELSE "failed"]
    /\ BatchUnchanged

\* every task returned: Parallel returns the list of results, and
\* run_in_parallel returns it
ReturnResults ==
    /\ batch.pc = "running"
    /\ \A i \in DOMAIN batch.status : batch.status[i] = "done"
    /\ batch' = [batch EXCEPT !.pc = "done", !.outcome = "ok",
                              !.results = [i \in DOMAIN batch.task_list |-> i]]
    /\ BatchUnchanged

\* a task raised: Parallel stops its workers, drops the tasks not yet done
\* and raises the task's exception, which run_in_parallel lets through
PropagateError ==
    /\ batch.pc = "running"
    /\ Failed # {}
    /\ batch' = [batch EXCEPT !.pc = "done", !.outcome = "raised",
                              !.status = [i \in DOMAIN batch.status |->
                                  IF batch.status[i] \in {"pending", "running"}
                                  THEN "dropped" ELSE batch.status[i]]]
    /\ BatchUnchanged

NextBatch == EnterParallel \/ Dispatch \/ Finish \/ ReturnResults \/ PropagateError

SpecBatch == InitBatch /\ [][NextBatch]_vars

\* C19: (the claim as stated) when a task of the list given to
\* run_in_parallel raises, every other task still runs to completion and
\* its result is delivered.
C19_PerFileIsolation ==
    batch.pc = "done" =>
        \A i \in DOMAIN batch.task_list :
            batch.task_list[i] = "returns" =>
                /\ batch.status[i] = "done"
                /\ i \in Range(batch.results)

====
